---- MODULE Spec2Model ----
(***************************************************************************)
(* MediVault retrieval core.                                               *)
(*                                                                         *)
(*   Spec       the vector store (backend/app/services/vector_store.py):   *)
(*              add_documents, search_similar, clear_collection,           *)
(*              get_collection_count, _save_index, _load_index, with       *)
(*              _save_index stopping before its end (an exception it       *)
(*              catches, or the process dying) and processes starting.     *)
(*   SpecChunk  the chunker (backend/app/services/text_chunker.py):        *)
(*              TextChunker.chunk_text, one step per loop iteration.       *)
(*   SpecRag    the RAG service (backend/app/services/rag_service.py)      *)
(*              over the vector store: ingest_documents (the clear of a    *)
(*              rebuild and the rest as two steps), query, get_summary,    *)
(*              get_recommendations, the records directory changing and    *)
(*              processes starting.                                        *)
(*   SpecRec    get_recommendations over the texts a generator returns:    *)
(*              the parsing of the list lines and the fallback.            *)
(*   SpecGemini the generator client (.../gemini_service.py):              *)
(*              _call_gemini_api, one step per requests.post;              *)
(*              SpecGeminiFair adds that every post and sleep ends.        *)
(*   SpecApp    the application (backend/app/main.py, backend/run.py):     *)
(*              two requests in flight, the handlers of one process on     *)
(*              its event loop, one step per change of the index, of the   *)
(*              metadata list or of a file, and processes starting.        *)
(*                                                                         *)
(* Python positions are 0-based; sequences here are 1-based, so the        *)
(* Python value text[i] is text[i + 1] below.  Offsets that the program    *)
(* stores or returns (start, end, id) keep their Python value.             *)
(***************************************************************************)
EXTENDS Integers, Sequences, FiniteSets, TLC

VARIABLES
    index,          \* self.index: the rows of the flat L2 index, in append order
    metadata,       \* self.metadata: list of dicts, one per vector
    index_file,     \* medical_records.faiss on disk
    metadata_file,  \* medical_records_metadata.pkl on disk
    up,             \* TRUE while a process holds a VectorStore
    result,         \* what the last call returned (or that it raised)
    sinceClear,     \* history: clear_collection ran on this instance, no add since
    text,           \* chunk_text: the text being split (after strip)
    chunk_size,     \* self.chunk_size
    chunk_overlap,  \* self.chunk_overlap
    start,          \* chunk_text: start
    chunk_index,    \* chunk_text: chunk_index
    chunks,         \* chunk_text: chunks
    cpc,            \* chunk_text: position ("idle", "loop", "done")
    corpus,         \* the records directory: its documents in file name order
    rag,            \* what the last RAGService call returned (or that it raised)
    rpc,            \* ingest_documents(rebuild=True): position ("idle", "cleared")
    pre,            \* history: the index when the rebuild began that is running
                    \* or was the last call
    max_retries,    \* _call_gemini_api: max_retries
    attempt,        \* _call_gemini_api: attempt
    url,            \* _call_gemini_api: the endpoint posted to ("base", "fallback")
    gpc,            \* _call_gemini_api: position ("idle", "running", "returned", "raised")
    tried,          \* history: the posts of the call and how each ended
    waits,          \* history: the sleeps of the call, in order
    reply,          \* what _call_gemini_api returned
    rag_service,    \* main.py: the global rag_service is set
    hpc,            \* main.py: the position of each request's handler
    hop,            \* main.py: the endpoint each request asked for
    hret,           \* main.py: where a handler goes on when its ingest_documents ends
    seen            \* history: what the last read of the index saw

storeVars == <<index, metadata, index_file, metadata_file, up, result, sinceClear>>
chunkVars == <<text, chunk_size, chunk_overlap, start, chunk_index, chunks, cpc>>
ragVars == <<corpus, rag, rpc, pre>>
gemVars == <<max_retries, attempt, url, gpc, tried, waits, reply>>
appVars == <<rag_service, hpc, hop, hret, seen>>
vars == <<index, metadata, index_file, metadata_file, up, result, sinceClear,
          text, chunk_size, chunk_overlap, start, chunk_index, chunks, cpc,
          corpus, rag, rpc, pre,
          max_retries, attempt, url, gpc, tried, waits, reply,
          rag_service, hpc, hop, hret, seen>>

Min(a, b) == IF a <= b THEN a ELSE b
Max(a, b) == IF a >= b THEN a ELSE b

(***************************************************************************)
(* Bounds of the model.                                                    *)
(***************************************************************************)
\* the index holds at most this many rows, and add_documents is called with
\* lists of at most this length
MaxEntries == 2
\* chunk_text is called with texts of at most this many characters
MaxTextLen == 7

(***************************************************************************)
(* Vector store: values.                                                   *)
(***************************************************************************)
\* self.embedding_dim (384 in the source, 2 here so that vectors stay small)
embedding_dim == 2

\* config.TOP_K_CHUNKS, the default of top_k
TOP_K_CHUNKS == 3

\* top_k = 0 stands for "top_k not given" (None)
TopKs == 0..TOP_K_CHUNKS

\* a key the chunk dict does not have
NoKey == "<missing>"

\* chunk dicts handed to add_documents: one as chunk_text builds them, and one
\* that has only a text
\* (a missing integer key is written -1)
ChunkDicts ==
    { [text |-> "bp", source_file |-> "a.txt", chunk_index |-> 0, total_chunks |-> 1],
      [text |-> "hr", source_file |-> NoKey, chunk_index |-> -1, total_chunks |-> -1] }

SeqsUpTo(S, n) == UNION { [1..m -> S] : m \in 0..n }

\* dict.get(key, default), for a string key and for an integer key
Get(v, default) == IF v = NoKey THEN default ELSE v
GetInt(v, default) == IF v < 0 THEN default ELSE v

\* add_documents, lines 85-90: the metadata record stored for one chunk
MetadataEntry(chunk) ==
    [ text         |-> Get(chunk.text, ""),
      source_file  |-> Get(chunk.source_file, "unknown"),
      chunk_index  |-> GetInt(chunk.chunk_index, 0),
      total_chunks |-> GetInt(chunk.total_chunks, 1) ]

\* EmbeddingService.generate_embedding, an opaque deterministic function of the
\* text: the vector of each text that occurs (chunk texts "bp" and "hr",
\* questions "hr?" and "sl?")
Embed(t) ==
    IF t = "bp" THEN <<1, 0>>
    ELSE IF t \in {"hr", "hr?"} THEN <<0, 1>>
    ELSE <<1, 1>>

\* a vector whose length is not embedding_dim
BadVector == [i \in 1..(embedding_dim - 1) |-> 0]

\* generate_embeddings_batch(chunk texts): one vector per chunk, in order
EmbedBatch(cs) == [ i \in 1..Len(cs) |-> Embed(cs[i].text) ]

\* the embeddings lists add_documents is called with, for the chunks cs: the
\* embedder's vectors; those with one vector of the wrong length; those with the
\* last vector missing; those with one vector more (of either length)
EmbeddingsFor(cs) ==
    LET good == EmbedBatch(cs)
    IN  {good}
        \cup { [good EXCEPT ![i] = BadVector] : i \in 1..Len(cs) }
        \cup { SubSeq(good, 1, Len(cs) - 1) : i \in 1..Len(cs) }
        \cup { Append(good, v) : v \in {Embed("bp"), BadVector} }

\* query vectors: the embeddings of two questions, and one of the wrong length
Queries == {<<1, 0>>, <<1, 1>>, BadVector}

\* One row of the index: the vector index.add stored
Row(vec) == [vec |-> vec]

\* history: the chunk dict that the caller paired with a stored vector
ChunkOf(vec) == CHOOSE c \in ChunkDicts : Embed(c.text) = vec

(***************************************************************************)
(* Persistence: the two files.                                             *)
(***************************************************************************)
MissingFile == [st |-> "missing", data |-> <<>>]
\* a file opened for writing and not written to its end
CorruptFile == [st |-> "corrupt", data |-> <<>>]

\* faiss.write_index(self.index, index_file)
write_index(idx) == [st |-> "ok", data |-> idx]
\* pickle.dump(self.metadata, f)
pickle_dump(meta) == [st |-> "ok", data |-> meta]

\* _create_new_index
create_new_index == [index |-> <<>>, metadata |-> <<>>]

\* _load_index as it would be if the metadata were never read back (lines 42-43
\* left out)
load_index_without_metadata(ifile, mfile) ==
    IF ifile.st = "ok" /\ mfile.st = "ok"
    THEN [index |-> ifile.data, metadata |-> <<>>]
    ELSE create_new_index

\* _load_index as it would be if the handler of line 46 did not start over: the
\* index read at line 39 stays when pickle.load raises
load_index_keeps_index(ifile, mfile) ==
    IF ifile.st # "missing" /\ mfile.st # "missing"
    THEN IF ifile.st = "corrupt"
         THEN create_new_index
         ELSE IF mfile.st = "corrupt"
              THEN [index |-> ifile.data, metadata |-> <<>>]
              ELSE [index |-> ifile.data, metadata |-> mfile.data]
    ELSE create_new_index

\* _load_index: what the constructor leaves in self.index and self.metadata
load_index(ifile, mfile) ==
    IF ifile.st # "missing" /\ mfile.st # "missing"
    THEN IF ifile.st = "corrupt"
         THEN create_new_index                 \* faiss.read_index raises
         ELSE IF mfile.st = "corrupt"
              THEN create_new_index            \* pickle.load raises
              ELSE [index |-> ifile.data, metadata |-> mfile.data]
    ELSE create_new_index

\* _save_index run to its end: both files written
SaveDone(idx, meta) == <<write_index(idx), pickle_dump(meta)>>

\* _save_index stopped before its end, by an exception (caught at line 167) or
\* by the process dying: <<index file, metadata file>> at each place it can stop
SaveStops(idx, meta, ifile, mfile) ==
    { <<ifile, mfile>>,                  \* before faiss.write_index wrote anything
      <<CorruptFile, mfile>>,            \* inside faiss.write_index
      <<write_index(idx), mfile>>,       \* between the two writes
      <<write_index(idx), CorruptFile>>  \* inside pickle.dump
    }

(***************************************************************************)
(* Vector store: search.                                                   *)
(***************************************************************************)
\* squared Euclidean distance, as IndexFlatL2 reports it
L2(u, v) ==
    LET sq[i \in 0..embedding_dim] ==
            IF i = 0 THEN 0 ELSE sq[i - 1] + (u[i] - v[i]) * (u[i] - v[i])
    IN  sq[embedding_dim]

\* self.index.search(query_array, k): the Python positions of the k nearest
\* rows, nearest first; rows at the same distance in position order
index_search(idx, q, k) ==
    LET n == Len(idx)
        before(j, i) == \/ L2(idx[j].vec, q) < L2(idx[i].vec, q)
                        \/ L2(idx[j].vec, q) = L2(idx[i].vec, q) /\ j < i
        rank(i) == Cardinality({ j \in 1..n : before(j, i) }) + 1
    IN  [ r \in 1..k |-> (CHOOSE i \in 1..n : rank(i) = r) - 1 ]

\* search_similar, lines 121-146: [raised, out]
search_similar(idx, meta, q, top_k) ==
    IF Len(idx) = 0
    THEN [raised |-> FALSE, out |-> <<>>]
    ELSE IF Len(q) # embedding_dim
         THEN [raised |-> TRUE, out |-> <<>>]
         ELSE LET indices == index_search(idx, q, Min(top_k, Len(idx)))
                  kept == SelectSeq(indices, LAMBDA i : i < Len(meta))
              IN  [ raised |-> FALSE,
                    out |-> [ n \in 1..Len(kept) |->
                                [ text        |-> meta[kept[n] + 1].text,
                                  source_file |-> meta[kept[n] + 1].source_file,
                                  id          |-> kept[n],
                                  distance    |-> L2(idx[kept[n] + 1].vec, q) ] ] ]

\* get_collection_count
get_collection_count(idx) == Len(idx)

(***************************************************************************)
(* Vector store: add_documents up to the save.                             *)
(***************************************************************************)
\* lines 67-78: "return" (nothing to do), "raise" (ValueError) or "add"
add_check(cs, es) ==
    IF Len(cs) = 0 \/ Len(es) = 0 THEN "return"
    ELSE IF Len(cs) # Len(es) THEN "raise"
    \* np.array raises on rows of unequal length; shape[1] is checked after it
    ELSE IF \E i \in 1..Len(es) : Len(es[i]) # embedding_dim THEN "raise"
    ELSE "add"

\* lines 81-100: the rows and the metadata after the appends
add_rows(idx, es) == idx \o [ i \in 1..Len(es) |-> Row(es[i]) ]
add_metadata(meta, cs) == meta \o [ i \in 1..Len(cs) |-> MetadataEntry(cs[i]) ]

\* the record kept of a call
Returned(op) ==
    [ op |-> op, raised |-> FALSE, saved |-> FALSE, counts_differ |-> FALSE,
      dimok |-> TRUE, k |-> 0, count |-> 0, out |-> <<>> ]

DimOk(es) == \A i \in 1..Len(es) : Len(es[i]) = embedding_dim

(***************************************************************************)
(* Vector store: the operations.                                           *)
(***************************************************************************)
\* the record kept of a RAGService call
RagReturned(op) ==
    [ op |-> op, rebuild |-> FALSE, raised |-> FALSE, status |-> "none",
      documents_processed |-> 0, chunks_created |-> 0, bootstrap |-> FALSE,
      embedded |-> FALSE, question |-> "none", retrieved |-> <<>>,
      has_records |-> FALSE, sources |-> <<>>, prompt |-> "none",
      answer |-> <<>>,
      \* get_recommendations: the generator was called, it raised, the text it
      \* returned, and the list in the returned dict
      generated |-> FALSE, gen_failed |-> FALSE, full_response |-> <<>>,
      recommendations |-> <<>>,
      \* history: the call before this one was a rebuild that succeeded, on
      \* the records this call saw
      repeat |-> FALSE ]

\* no rebuild is running or was the last call
NoRebuild == [index |-> <<>>, metadata |-> <<>>]

\* no RAGService around the store or the chunker
RagIdle ==
    /\ corpus = <<>> /\ rag = RagReturned("none") /\ rpc = "idle"
    /\ pre = NoRebuild

\* the chunker at rest, while the store runs
ChunkerIdle ==
    /\ text = <<>> /\ chunk_size = 0 /\ chunk_overlap = 0
    /\ start = 0 /\ chunk_index = 0 /\ chunks = <<>> /\ cpc = "idle"

\* no text returned by _call_gemini_api
NoReply == [given |-> FALSE, text |-> <<>>]

\* no call of _call_gemini_api yet
GeminiIdle ==
    /\ max_retries = 0 /\ attempt = 0 /\ url = "base" /\ gpc = "idle"
    /\ tried = <<>> /\ waits = <<>> /\ reply = NoReply

\* the requests in flight at one time
Requests == {"r1", "r2"}

\* no read yet
NoRead ==
    [by |-> "none", read |-> "none", vectors |-> 0, records |-> 0, saving |-> FALSE]

\* no application around the services
AppIdle ==
    /\ rag_service = FALSE
    /\ hpc = [r \in Requests |-> "idle"]
    /\ hop = [r \in Requests |-> "none"]
    /\ hret = [r \in Requests |-> "none"]
    /\ seen = NoRead

\* VectorStore() on a directory that holds no files yet
Init ==
    /\ index_file = MissingFile
    /\ metadata_file = MissingFile
    /\ index = load_index(MissingFile, MissingFile).index
    /\ metadata = load_index(MissingFile, MissingFile).metadata
    /\ up = TRUE
    /\ result = Returned("load")
    /\ sinceClear = FALSE
    /\ ChunkerIdle
    /\ AppIdle
    /\ GeminiIdle
    /\ RagIdle

\* _save_index as the last step of a call that returns: the files it leaves and
\* whether it ran to its end.  It catches every exception (line 167), so the
\* call returns normally wherever the save stopped.
Saves(idx, meta, ifile, mfile) ==
    { [files |-> SaveDone(idx, meta), saved |-> TRUE] }
    \cup { [files |-> f, saved |-> FALSE] : f \in SaveStops(idx, meta, ifile, mfile) }

\* add_documents(chunks, embeddings), the save included
AddDocuments(cs, es) ==
    /\ up
    /\ LET verdict == add_check(cs, es)
           call == [Returned("add") EXCEPT !.counts_differ = (Len(cs) # Len(es)),
                                          !.dimok = DimOk(es)]
       IN  IF verdict = "add"
           THEN /\ Max(Len(index), Len(metadata)) + Len(cs) <= MaxEntries
                /\ index' = add_rows(index, es)
                /\ metadata' = add_metadata(metadata, cs)
                /\ \E s \in Saves(add_rows(index, es), add_metadata(metadata, cs),
                                  index_file, metadata_file) :
                      /\ index_file' = s.files[1]
                      /\ metadata_file' = s.files[2]
                      /\ result' = [call EXCEPT !.saved = s.saved]
                /\ sinceClear' = FALSE
           ELSE /\ result' = [call EXCEPT !.raised = (verdict = "raise")]
                /\ UNCHANGED <<index, metadata, index_file, metadata_file, sinceClear>>
    /\ UNCHANGED <<up, chunkVars, ragVars, gemVars, appVars>>

\* add_documents with the process dying inside _save_index
AddDocumentsCrash(cs, es) ==
    /\ up
    /\ add_check(cs, es) = "add"
    /\ Max(Len(index), Len(metadata)) + Len(cs) <= MaxEntries
    /\ \E f \in SaveStops(add_rows(index, es), add_metadata(metadata, cs),
                          index_file, metadata_file) :
          /\ index_file' = f[1]
          /\ metadata_file' = f[2]
    /\ index' = <<>> /\ metadata' = <<>>
    /\ up' = FALSE
    /\ result' = Returned("crash")
    /\ sinceClear' = FALSE
    /\ UNCHANGED <<chunkVars, ragVars, gemVars, appVars>>

\* clear_collection as it would be if _create_new_index emptied only the
\* metadata list and kept the index object
ClearCollectionKeepsIndex ==
    /\ up
    /\ index' = index
    /\ metadata' = create_new_index.metadata
    /\ \E s \in Saves(index, create_new_index.metadata, index_file, metadata_file) :
          /\ index_file' = s.files[1]
          /\ metadata_file' = s.files[2]
          /\ result' = [Returned("clear") EXCEPT !.saved = s.saved]
    /\ sinceClear' = TRUE
    /\ UNCHANGED <<up, chunkVars, ragVars, gemVars, appVars>>

\* clear_collection: _create_new_index, then _save_index
ClearCollection ==
    /\ up
    /\ index' = create_new_index.index
    /\ metadata' = create_new_index.metadata
    /\ \E s \in Saves(create_new_index.index, create_new_index.metadata,
                      index_file, metadata_file) :
          /\ index_file' = s.files[1]
          /\ metadata_file' = s.files[2]
          /\ result' = [Returned("clear") EXCEPT !.saved = s.saved]
    /\ sinceClear' = TRUE
    /\ UNCHANGED <<up, chunkVars, ragVars, gemVars, appVars>>

\* clear_collection with the process dying inside _save_index
ClearCollectionCrash ==
    /\ up
    /\ \E f \in SaveStops(create_new_index.index, create_new_index.metadata,
                          index_file, metadata_file) :
          /\ index_file' = f[1]
          /\ metadata_file' = f[2]
    /\ index' = <<>> /\ metadata' = <<>>
    /\ up' = FALSE
    /\ result' = Returned("crash")
    /\ sinceClear' = FALSE
    /\ UNCHANGED <<chunkVars, ragVars, gemVars, appVars>>

\* search_similar(query_embedding, top_k); top_k = 0 stands for top_k not given
SearchSimilar(q, top_k) ==
    /\ up
    /\ LET k == IF top_k = 0 THEN TOP_K_CHUNKS ELSE top_k
           r == search_similar(index, metadata, q, k)
       IN  result' = [Returned("search") EXCEPT !.raised = r.raised, !.out = r.out,
                                                !.k = k]
    /\ UNCHANGED <<index, metadata, index_file, metadata_file, up, sinceClear, chunkVars, ragVars, gemVars, appVars>>

\* get_collection_count()
GetCollectionCount ==
    /\ up
    /\ result' = [Returned("count") EXCEPT !.count = get_collection_count(index)]
    /\ UNCHANGED <<index, metadata, index_file, metadata_file, up, sinceClear, chunkVars, ragVars, gemVars, appVars>>

\* a process starts (the one before it, if any, is gone): VectorStore.__init__
Restart ==
    /\ index' = load_index(index_file, metadata_file).index
    /\ metadata' = load_index(index_file, metadata_file).metadata
    /\ up' = TRUE
    /\ result' = Returned("load")
    /\ sinceClear' = FALSE
    /\ UNCHANGED <<index_file, metadata_file, chunkVars, ragVars, gemVars, appVars>>

Next ==
    \/ \E cs \in SeqsUpTo(ChunkDicts, MaxEntries) : \E es \in EmbeddingsFor(cs) :
          AddDocuments(cs, es)
    \/ \E cs \in SeqsUpTo(ChunkDicts, MaxEntries) : \E es \in EmbeddingsFor(cs) :
          AddDocumentsCrash(cs, es)
    \/ ClearCollection
    \/ ClearCollectionCrash
    \/ \E q \in Queries, top_k \in TopKs : SearchSimilar(q, top_k)
    \/ GetCollectionCount
    \/ Restart

Spec == Init /\ [][Next]_vars

(***************************************************************************)
(* Chunker: values and string operations.                                  *)
(***************************************************************************)
\* the characters of a text: a letter, a space, a newline, a period
Alphabet == {"a", " ", "nl", "."}
Whitespace == {" ", "nl"}
Texts == SeqsUpTo(Alphabet, MaxTextLen)

\* the configurations: config.CHUNK_SIZE and config.CHUNK_OVERLAP are any
\* integers of config.properties (500 and 50 when the file names none)
ChunkSizes == {3, 5, 6}
Overlaps == {0, 2, 5, 6}

\* one iteration more than a loop that advances start by at least one character
\* per iteration can make on the longest text
MaxIter == MaxTextLen + 1

\* str.strip()
Strip(s) ==
    LET keep == { i \in 1..Len(s) : s[i] \notin Whitespace }
    IN  IF keep = {} THEN <<>>
        ELSE SubSeq(s, CHOOSE i \in keep : \A j \in keep : i <= j,
                       CHOOSE i \in keep : \A j \in keep : i >= j)

\* s[a:b], with Python's rule for negative and out-of-range positions
PySlice(s, a, b) ==
    LET n == Len(s)
        lo == IF a < 0 THEN Max(a + n, 0) ELSE Min(a, n)
        hi == IF b < 0 THEN Max(b + n, 0) ELSE Min(b, n)
    IN  IF hi <= lo THEN <<>> ELSE SubSeq(s, lo + 1, hi)

\* s.rfind(sub, from) for from >= 0 and a non-empty sub: the highest position
\* at or after from where sub occurs in s, or -1
RFind(s, sub, from) ==
    LET hits == { i \in from..(Len(s) - Len(sub)) : SubSeq(s, i + 1, i + Len(sub)) = sub }
    IN  IF hits = {} THEN -1 ELSE CHOOSE i \in hits : \A j \in hits : i >= j

\* boundary_chars without its last, empty entry (skipped by "if boundary")
boundary_chars == << <<"nl", "nl">>, <<"nl">>, <<".", " ">>, <<" ">> >>

\* int(self.chunk_size * 0.8)
EightyPercent(cs) == (cs * 8) \div 10

\* lines 56-73: the end of the window that starts at st
window_end(txt, cs, st) ==
    LET end0 == st + cs
        chunk_text == PySlice(txt, st, end0)
        boundary_search_start == Max(st + EightyPercent(cs), st)
        found == { b \in 1..Len(boundary_chars) :
                     RFind(chunk_text, boundary_chars[b], boundary_search_start - st) # -1 }
        first == CHOOSE b \in found : \A c \in found : b <= c
    IN  IF end0 < Len(txt) /\ found # {}
        THEN st + RFind(chunk_text, boundary_chars[first], boundary_search_start - st)
                + Len(boundary_chars[first])
        ELSE end0

\* lines 76-82: the chunk dict of the window [st, en)
chunk_data(txt, st, en, ci) ==
    [ text |-> Strip(PySlice(txt, st, en)), chunk_index |-> ci,
      start_char |-> st, end_char |-> en ]

\* lines 99-101 as they would be if the count were taken before the last
\* chunk was appended
stamp_total_one_short(cks) ==
    [ i \in 1..Len(cks) |->
        [ text |-> cks[i].text, chunk_index |-> cks[i].chunk_index,
          start_char |-> cks[i].start_char, end_char |-> cks[i].end_char,
          total_chunks |-> Len(cks) - 1 ] ]

\* lines 99-101: stamp total_chunks on every chunk
stamp_total(cks) ==
    [ i \in 1..Len(cks) |->
        [ text |-> cks[i].text, chunk_index |-> cks[i].chunk_index,
          start_char |-> cks[i].start_char, end_char |-> cks[i].end_char,
          total_chunks |-> Len(cks) ] ]

(***************************************************************************)
(* Chunker: chunk_text, one step per loop iteration.                       *)
(***************************************************************************)
\* no store is running while the chunker is looked at
StoreIdle ==
    /\ index = <<>> /\ metadata = <<>>
    /\ index_file = MissingFile /\ metadata_file = MissingFile
    /\ up = FALSE /\ result = Returned("none") /\ sinceClear = FALSE

\* TextChunker.__init__: the configuration is read
InitChunk ==
    /\ StoreIdle
    /\ AppIdle
    /\ GeminiIdle
    /\ RagIdle
    /\ chunk_size \in ChunkSizes
    /\ chunk_overlap \in Overlaps
    /\ text = <<>> /\ start = 0 /\ chunk_index = 0 /\ chunks = <<>>
    /\ cpc = "idle"

\* chunk_text as it would be if the single chunk of lines 40-45 took the text
\* as passed in, not the stripped one
chunk_text_call_unstripped(raw) ==
    /\ text' = Strip(raw)
    /\ start' = 0
    /\ chunk_index' = 0
    /\ IF Strip(raw) = <<>>
       THEN chunks' = <<>> /\ cpc' = "done"
       ELSE IF Len(Strip(raw)) <= chunk_size
            THEN /\ chunks' = << [text |-> raw, chunk_index |-> 0,
                                  total_chunks |-> 1] >>
                 /\ cpc' = "done"
            ELSE chunks' = <<>> /\ cpc' = "loop"
    /\ UNCHANGED <<chunk_size, chunk_overlap, storeVars, ragVars, gemVars, appVars>>

\* chunk_text(raw), lines 32-52: up to the loop
chunk_text_call(raw) ==
    /\ text' = Strip(raw)
    /\ start' = 0
    /\ chunk_index' = 0
    /\ IF Strip(raw) = <<>>
       THEN chunks' = <<>> /\ cpc' = "done"
       ELSE IF Len(Strip(raw)) <= chunk_size
            THEN /\ chunks' = << [text |-> Strip(raw), chunk_index |-> 0,
                                  total_chunks |-> 1] >>
                 /\ cpc' = "done"
            ELSE chunks' = <<>> /\ cpc' = "loop"
    /\ UNCHANGED <<chunk_size, chunk_overlap, storeVars, ragVars, gemVars, appVars>>

ChunkTextCall ==
    /\ cpc = "idle"
    /\ \E raw \in Texts : chunk_text_call(raw)

\* the loop as it would be if line 91 moved start one character further
ChunkStepSkipsOne ==
    /\ cpc = "loop"
    /\ chunk_index < MaxIter
    /\ LET end == window_end(text, chunk_size, start)
           grown == Append(chunks, chunk_data(text, start, end, chunk_index))
       IN  /\ start' = end - chunk_overlap + 1
           /\ chunk_index' = chunk_index + 1
           /\ IF end - chunk_overlap + 1 >= Len(text)
              THEN chunks' = stamp_total(grown) /\ cpc' = "done"
              ELSE chunks' = grown /\ cpc' = "loop"
    /\ UNCHANGED <<text, chunk_size, chunk_overlap, storeVars, ragVars, gemVars, appVars>>

\* lines 54-96, one iteration; the last one also runs lines 99-103
ChunkStep ==
    /\ cpc = "loop"
    /\ chunk_index < MaxIter
    /\ LET end == window_end(text, chunk_size, start)
           grown == Append(chunks, chunk_data(text, start, end, chunk_index))
       IN  /\ start' = end - chunk_overlap
           /\ chunk_index' = chunk_index + 1
           /\ IF end - chunk_overlap >= Len(text)
              THEN chunks' = stamp_total(grown) /\ cpc' = "done"
              ELSE chunks' = grown /\ cpc' = "loop"
    /\ UNCHANGED <<text, chunk_size, chunk_overlap, storeVars, ragVars, gemVars, appVars>>

NextChunk ==
    \/ ChunkTextCall
    \/ ChunkStep

SpecChunk == InitChunk /\ [][NextChunk]_vars

(***************************************************************************)
(* RAG service (backend/app/services/rag_service.py): values.              *)
(***************************************************************************)
\* The records get_records_with_metadata returns: file name and content.  The
\* content is written as the texts chunk_text cuts it into (one text for a
\* content of at most chunk_size characters); SpecChunk has the cutting.
DocA == [name |-> "a.txt", content |-> <<"bp", "hr">>]
DocB == [name |-> "b.txt", content |-> <<"bp">>]
DocC == [name |-> "c.txt", content |-> <<"hr">>]

\* the records directory: missing or empty, or holding files; records come
\* sorted by file name
Corpora == { <<>>, <<DocA>>, <<DocB>>, <<DocB, DocC>> }

\* the questions asked: one about the heart rate, one about sleep
Questions == {"hr?", "sl?"}

\* the texts the generator returns
GenTexts == { <<>>, <<" ">>, <<"a">>, <<" ", "a", "nl">> }

\* The lines of a generated recommendations text: a list marker or none, a
\* gap, the content.
Blanks == { <<>>, <<" ">> }
RecMarkers == { <<>>, <<"-">>, <<"bullet">>, <<"*">>, <<"1", ".">>, <<"2", ")">>,
                <<"1", "2", ".">> }
RecBodies ==
    { <<>>,
      <<"e", "a", "t", " ", "f", "r", "u", "i", "t">>,            \* 9 characters
      <<"d", "r", "i", "n", "k", " ", "m", "o", "r", "e">>,       \* 10 characters
      <<"s", "l", "e", "e", "p", " ", "e", "a", "r", "l", "y">>,  \* 11 characters
      <<"5", " ", "f", "r", "u", "i", "t", "s", " ", "d", "a", "i", "l", "y">>,
      <<"D", "i", "s", "c", "l", "a", "i", "m", "e", "r", ":", " ", "r", "e", "s", "t">>,
      <<"*", "*", "D", "i", "e", "t", "*", "*", ":", " ", "m", "o", "r", "e">> }
RecLines ==
    { m \o gap \o body : m \in RecMarkers, gap \in Blanks, body \in RecBodies }

\* the lines that the texts of more than one line are made of
CoreLines ==
    { <<"-", " ">> \o <<"s", "l", "e", "e", "p", " ", "e", "a", "r", "l", "y">>,
      <<"1", ".", " ">> \o <<"d", "r", "i", "n", "k", " ", "m", "o", "r", "e">>,
      <<"*", " ">> \o <<"D", "i", "s", "c", "l", "a", "i", "m", "e", "r", ":", " ", "r", "e", "s", "t">>,
      <<"s", "l", "e", "e", "p", " ", "e", "a", "r", "l", "y">> }

\* the most lines a generated text holds
MaxLines == 2

\* "\n".join(lines)
JoinLines(lines) ==
    LET acc[i \in 0..Len(lines)] ==
            IF i = 0 THEN <<>>
            ELSE IF i = 1 THEN lines[1]
            ELSE acc[i - 1] \o <<"nl">> \o lines[i]
    IN  acc[Len(lines)]

\* the texts the generator returns for a recommendations prompt
Responses ==
    GenTexts \cup RecLines \cup { <<" ">> \o line \o <<" ">> : line \in CoreLines }
    \cup { JoinLines(ls) : ls \in UNION { [1..n -> CoreLines] : n \in 2..MaxLines } }

\* two of them: a list of two entries, and a sentence
GenLists ==
    { JoinLines(<< <<"-", " ">> \o <<"s", "l", "e", "e", "p", " ", "e", "a", "r", "l", "y">>, <<"1", ".", " ">> \o <<"d", "r", "i", "n", "k", " ", "m", "o", "r", "e">> >>),
      <<"s", "l", "e", "e", "p", " ", "e", "a", "r", "l", "y">> }

\* "I don't have access to your medical records yet. ..." (line 96)
NoRecordsAnswer == <<"n", "o">>
\* "Error generating answer: ..." (line 196)
ErrorAnswer == <<"e", "r", "r">>

\* chunk_text(content, source_file = name) for one record
chunk_text_of(doc) ==
    [ i \in 1..Len(doc.content) |->
        [ text |-> doc.content[i], source_file |-> doc.name,
          chunk_index |-> i - 1, total_chunks |-> Len(doc.content) ] ]

\* TextChunker.chunk_documents: the chunks of all records, in order
chunk_documents(docs) ==
    LET all[i \in 0..Len(docs)] ==
            IF i = 0 THEN <<>> ELSE all[i - 1] \o chunk_text_of(docs[i])
    IN  all[Len(docs)]

\* query lines 113-124 with every source appended, seen before or not
all_sources(similar_chunks) ==
    [ i \in 1..Len(similar_chunks) |-> similar_chunks[i].source_file ]

\* query lines 113-124 and get_recommendations lines 218-227: the source files
\* of the retrieved chunks, each appended when first seen
unique_sources(similar_chunks) ==
    LET has(seq, x) == \E j \in 1..Len(seq) : seq[j] = x
        acc[i \in 0..Len(similar_chunks)] ==
            IF i = 0 THEN <<>>
            ELSE IF has(acc[i - 1], similar_chunks[i].source_file)
                 THEN acc[i - 1]
                 ELSE Append(acc[i - 1], similar_chunks[i].source_file)
    IN  acc[Len(similar_chunks)]

\* ingest_documents lines 39-77, run on the index idx/meta and the files
\* ifile/mfile over the records crp: every way it can end
IngestOutcomes(idx, meta, ifile, mfile, crp) ==
    LET all_chunks == chunk_documents(crp)
        embeddings == EmbedBatch(all_chunks)
        verdict == add_check(all_chunks, embeddings)
        ends(raised, status, embedded) ==
            [ raised |-> raised, status |-> status, embedded |-> embedded,
              documents_processed |-> IF raised THEN 0 ELSE Len(crp),
              chunks_created |-> IF status = "success" THEN Len(all_chunks) ELSE 0,
              index |-> idx, metadata |-> meta, ifile |-> ifile, mfile |-> mfile ]
    IN  IF crp = <<>> THEN { ends(FALSE, "no_documents", FALSE) }
        ELSE IF all_chunks = <<>> THEN { ends(FALSE, "no_chunks", FALSE) }
        ELSE { ends(TRUE, "none", TRUE) }        \* the embedder raises
             \cup
             ( IF verdict = "raise" THEN { ends(TRUE, "none", TRUE) }
               ELSE IF verdict = "return" THEN { ends(FALSE, "success", TRUE) }
               ELSE { [ ends(FALSE, "success", TRUE) EXCEPT
                          !.index = add_rows(idx, embeddings),
                          !.metadata = add_metadata(meta, all_chunks),
                          !.ifile = sv.files[1], !.mfile = sv.files[2] ] :
                      sv \in Saves(add_rows(idx, embeddings),
                                   add_metadata(meta, all_chunks), ifile, mfile) } )

\* ingest_documents was not called
NotIngested(idx, meta, ifile, mfile) ==
    [ raised |-> FALSE, status |-> "skipped", embedded |-> FALSE,
      documents_processed |-> 0, chunks_created |-> 0,
      index |-> idx, metadata |-> meta, ifile |-> ifile, mfile |-> mfile ]

\* what retrieval and generation leave in the returned dict
Answered(raised, retrieved, has, sources, prompt, answer) ==
    [ raised |-> raised, retrieved |-> retrieved, has_records |-> has,
      sources |-> sources, prompt |-> prompt, answer |-> answer ]

\* query lines 103-201 as they would be if line 146 always took the else
\* branch: the prompt that says the records hold nothing
AnswersUngroundedPrompt(idx, meta, qn) ==
    LET found == search_similar(idx, meta, Embed(qn), TOP_K_CHUNKS)
        has_relevant_records == Len(found.out) > 0
        sources == IF has_relevant_records THEN unique_sources(found.out) ELSE <<>>
    IN  { Answered(TRUE, <<>>, FALSE, <<>>, "none", <<>>) }
        \cup
        ( IF found.raised
          THEN { Answered(TRUE, <<>>, FALSE, <<>>, "none", <<>>) }
          ELSE { Answered(FALSE, found.out, has_relevant_records, sources,
                          "ungrounded", Strip(full_response)) :
                 full_response \in GenTexts }
               \cup
               { Answered(FALSE, found.out, has_relevant_records, sources,
                          "ungrounded", ErrorAnswer) } )

\* query lines 103-201 on the index idx/meta: every way it can end
Answers(idx, meta, qn) ==
    LET found == search_similar(idx, meta, Embed(qn), TOP_K_CHUNKS)
        has_relevant_records == Len(found.out) > 0
        sources == IF has_relevant_records THEN unique_sources(found.out) ELSE <<>>
        prompt == IF has_relevant_records THEN "grounded" ELSE "ungrounded"
    IN  { Answered(TRUE, <<>>, FALSE, <<>>, "none", <<>>) }   \* the embedder raises
        \cup
        ( IF found.raised
          THEN { Answered(TRUE, <<>>, FALSE, <<>>, "none", <<>>) }
          ELSE { Answered(FALSE, found.out, has_relevant_records, sources, prompt,
                          Strip(full_response)) : full_response \in GenTexts }
               \cup       \* _call_gemini_api raises
               { Answered(FALSE, found.out, has_relevant_records, sources, prompt,
                          ErrorAnswer) } )

\* the characters line.lstrip('-*0123456789.) ') removes (line 279), the
\* bullet U+2022 (written "bullet") among them
Bullets == {"-", "bullet", "*"}
Digits == {"0", "1", "2", "3", "4", "5", "6", "7", "8", "9"}
LStripChars == Bullets \cup Digits \cup {".", ")", " "}

\* len(rec) > 10 (line 280)
MinRecLen == 10

\* "Please consult with your healthcare provider for personalized medical
\* advice." (line 284)
FallbackRec == <<"Please consult with your healthcare provider">>
\* "Error generating recommendations: ..." (line 292)
ErrorRec == <<"Error generating recommendations">>

\* full_response.split('\n')
SplitLines(s) ==
    LET f[i \in 0..Len(s)] ==
            IF i = 0 THEN << <<>> >>
            ELSE LET before == f[i - 1]
                 IN  IF s[i] = "nl" THEN Append(before, <<>>)
                     ELSE [before EXCEPT ![Len(before)] = Append(@, s[i])]
    IN  f[Len(s)]

\* s.lstrip(chars)
LStrip(s, chars) ==
    LET keep == { i \in 1..Len(s) : s[i] \notin chars }
    IN  IF keep = {} THEN <<>>
        ELSE SubSeq(s, CHOOSE i \in keep : \A j \in keep : i <= j, Len(s))

\* s.lower(), on the letters the generated texts hold in upper case
Lower(s) == [ i \in 1..Len(s) |-> IF s[i] = "D" THEN "d" ELSE s[i] ]

\* sub in s
Contains(s, sub) ==
    \E i \in 0..(Len(s) - Len(sub)) : SubSeq(s, i + 1, i + Len(sub)) = sub

\* 'disclaimer'
Disclaimer == <<"d", "i", "s", "c", "l", "a", "i", "m", "e", "r">>

\* lines 277-278, on a stripped line: it starts with a bullet, or with a digit
\* and then '.' or ')'
is_list_line(line) ==
    /\ line # <<>>
    /\ \/ line[1] \in Bullets
       \/ Len(line) > 2 /\ line[1] \in Digits /\ line[2] \in {".", ")"}

\* lines 276-281 for one line of the response: the recommendation it gives,
\* as a list of one, or the empty list
parse_line(raw) ==
    LET line == Strip(raw)
        rec == Strip(LStrip(line, LStripChars))
    IN  IF is_list_line(line) /\ rec # <<>>
           /\ ~Contains(Lower(rec), Disclaimer) /\ Len(rec) > MinRecLen
        THEN <<rec>> ELSE <<>>

\* lines 274-281: the recommendations parsed from the response
parse_recommendations(full_response) ==
    LET lines == SplitLines(full_response)
        acc[i \in 0..Len(lines)] ==
            IF i = 0 THEN <<>> ELSE acc[i - 1] \o parse_line(lines[i])
    IN  acc[Len(lines)]

\* lines 274-289 as they would be without lines 283-284
recommendations_without_fallback(full_response) ==
    parse_recommendations(full_response)

\* lines 274-289: the list put in the returned dict
recommendations_of(full_response) ==
    IF parse_recommendations(full_response) = <<>> THEN <<FallbackRec>>
    ELSE parse_recommendations(full_response)

\* get_recommendations lines 215-294 (context_from_records = True, as main.py
\* calls it): retrieval, sources and the prompt chosen
Recommended(idx, meta, qn, crp) ==
    LET found == search_similar(idx, meta, Embed(qn), TOP_K_CHUNKS)
        sources == IF Len(found.out) > 0 THEN unique_sources(found.out) ELSE <<>>
        prompt == IF Len(found.out) > 0 \/ crp # <<>> THEN "records" ELSE "general"
    IN  { Answered(TRUE, <<>>, FALSE, <<>>, "none", <<>>) }   \* the embedder raises
        \cup
        ( IF found.raised
          THEN { Answered(TRUE, <<>>, FALSE, <<>>, "none", <<>>) }
          ELSE { Answered(FALSE, found.out, FALSE, sources, prompt, <<>>) } )

(***************************************************************************)
(* RAG service: the operations.                                            *)
(***************************************************************************)
\* the index and the metadata list stay within MaxEntries when the chunks of
\* the records crp are added
RoomFor(crp) ==
    Max(Len(index), Len(metadata)) + Len(chunk_documents(crp)) <= MaxEntries

\* RAGService() in a directory that holds no index files yet
InitRag ==
    /\ index_file = MissingFile
    /\ metadata_file = MissingFile
    /\ index = load_index(MissingFile, MissingFile).index
    /\ metadata = load_index(MissingFile, MissingFile).metadata
    /\ up = TRUE
    /\ result = Returned("load")
    /\ sinceClear = FALSE
    /\ ChunkerIdle
    /\ AppIdle
    /\ GeminiIdle
    /\ corpus \in Corpora
    /\ rag = RagReturned("new")
    /\ rpc = "idle"
    /\ pre = NoRebuild

\* ingest_documents(rebuild=True) as it would be without line 37
IngestRebuildKeeps ==
    /\ up /\ rpc = "idle"
    /\ pre' = [index |-> index, metadata |-> metadata]
    /\ rpc' = "cleared"
    /\ UNCHANGED <<index, metadata, index_file, metadata_file,
                   up, result, sinceClear, chunkVars, corpus, rag, gemVars, appVars>>

\* ingest_documents(rebuild=True), lines 35-37: clear_collection
IngestRebuildClear ==
    /\ up /\ rpc = "idle"
    /\ pre' = [index |-> index, metadata |-> metadata]
    /\ index' = create_new_index.index
    /\ metadata' = create_new_index.metadata
    /\ \E sv \in Saves(create_new_index.index, create_new_index.metadata,
                       index_file, metadata_file) :
          /\ index_file' = sv.files[1]
          /\ metadata_file' = sv.files[2]
    /\ rpc' = "cleared"
    /\ UNCHANGED <<up, result, sinceClear, chunkVars, corpus, rag, gemVars, appVars>>

\* ingest_documents lines 39-77: all of ingest_documents(rebuild=False), and
\* what ingest_documents(rebuild=True) does after the clear
IngestRest(rebuild) ==
    /\ up
    /\ rpc = (IF rebuild THEN "cleared" ELSE "idle")
    /\ RoomFor(corpus)
    /\ \E o \in IngestOutcomes(index, metadata, index_file, metadata_file, corpus) :
          /\ index' = o.index
          /\ metadata' = o.metadata
          /\ index_file' = o.ifile
          /\ metadata_file' = o.mfile
          /\ rag' = [RagReturned("ingest") EXCEPT
                       !.rebuild = rebuild, !.raised = o.raised, !.status = o.status,
                       !.documents_processed = o.documents_processed,
                       !.chunks_created = o.chunks_created,
                       !.embedded = o.embedded,
                       !.repeat = (rag.op = "ingest" /\ rag.rebuild
                                   /\ rag.status = "success")]
    /\ rpc' = "idle"
    /\ pre' = (IF rebuild THEN pre ELSE NoRebuild)
    /\ UNCHANGED <<up, result, sinceClear, chunkVars, corpus, gemVars, appVars>>

\* query as it would be if lines 94-101 were left out: no early return when
\* the ingestion of line 93 does not succeed
QueryWithoutEarlyReturn(qn) ==
    /\ up /\ rpc = "idle"
    /\ get_collection_count(index) = 0 => RoomFor(corpus)
    /\ LET empty == get_collection_count(index) = 0
       IN  \E b \in (IF empty
                     THEN IngestOutcomes(index, metadata, index_file, metadata_file, corpus)
                     ELSE {NotIngested(index, metadata, index_file, metadata_file)}) :
              /\ index' = b.index
              /\ metadata' = b.metadata
              /\ index_file' = b.ifile
              /\ metadata_file' = b.mfile
              /\ LET call == [RagReturned("query") EXCEPT
                                !.question = qn, !.bootstrap = empty,
                                !.status = b.status, !.embedded = b.embedded,
                                !.documents_processed = b.documents_processed,
                                !.chunks_created = b.chunks_created]
                 IN  IF b.raised
                     THEN rag' = [call EXCEPT !.raised = TRUE]
                     ELSE \E a \in Answers(b.index, b.metadata, qn) :
                             rag' = [call EXCEPT
                                       !.embedded = TRUE, !.raised = a.raised,
                                       !.retrieved = a.retrieved,
                                       !.has_records = a.has_records,
                                       !.sources = a.sources, !.prompt = a.prompt,
                                       !.answer = a.answer]
    /\ pre' = NoRebuild
    /\ UNCHANGED <<up, result, sinceClear, chunkVars, corpus, rpc, gemVars, appVars>>

\* query(question), lines 89-201
Query(qn) ==
    /\ up /\ rpc = "idle"
    /\ get_collection_count(index) = 0 => RoomFor(corpus)
    /\ LET empty == get_collection_count(index) = 0
       IN  \E b \in (IF empty
                     THEN IngestOutcomes(index, metadata, index_file, metadata_file, corpus)
                     ELSE {NotIngested(index, metadata, index_file, metadata_file)}) :
              /\ index' = b.index
              /\ metadata' = b.metadata
              /\ index_file' = b.ifile
              /\ metadata_file' = b.mfile
              /\ LET call == [RagReturned("query") EXCEPT
                                !.question = qn, !.bootstrap = empty,
                                !.status = b.status, !.embedded = b.embedded,
                                !.documents_processed = b.documents_processed,
                                !.chunks_created = b.chunks_created]
                 IN  IF b.raised
                     THEN rag' = [call EXCEPT !.raised = TRUE]
                     ELSE IF empty /\ b.status # "success"
                          THEN rag' = [call EXCEPT !.answer = NoRecordsAnswer]
                          ELSE \E a \in Answers(b.index, b.metadata, qn) :
                                  rag' = [call EXCEPT
                                            !.embedded = TRUE, !.raised = a.raised,
                                            !.retrieved = a.retrieved,
                                            !.has_records = a.has_records,
                                            !.sources = a.sources, !.prompt = a.prompt,
                                            !.answer = a.answer]
    /\ pre' = NoRebuild
    /\ UNCHANGED <<up, result, sinceClear, chunkVars, corpus, rpc, gemVars, appVars>>

\* get_recommendations(question), lines 215-294; texts are the texts the
\* generator may return
GetRecommendations(qn, texts) ==
    /\ up /\ rpc = "idle"
    /\ \E a \in Recommended(index, metadata, qn, corpus) :
          LET call == [RagReturned("recommend") EXCEPT
                         !.question = qn, !.embedded = TRUE, !.raised = a.raised,
                         !.retrieved = a.retrieved, !.sources = a.sources,
                         !.prompt = a.prompt]
          IN  IF a.raised THEN rag' = call
              ELSE \/ \E full_response \in texts :
                        rag' = [call EXCEPT
                                  !.generated = TRUE,
                                  !.full_response = full_response,
                                  !.recommendations = recommendations_of(full_response)]
                   \/ rag' = [call EXCEPT     \* _call_gemini_api raises
                                 !.generated = TRUE, !.gen_failed = TRUE,
                                 !.recommendations = <<ErrorRec>>]
    /\ pre' = NoRebuild
    /\ UNCHANGED <<storeVars, chunkVars, corpus, rpc, gemVars, appVars>>

\* "No medical records found." (lines 308 and 315)
NoRecordsSummary == <<"n", "r">>

\* read_all_records().strip() is not empty: some record has content
HasRecords(crp) == \E i \in 1..Len(crp) : crp[i].content # <<>>

\* get_summary(), lines 304-322
GetSummary ==
    /\ up /\ rpc = "idle"
    /\ get_collection_count(index) = 0 => RoomFor(corpus)
    /\ LET empty == get_collection_count(index) = 0
       IN  \E b \in (IF empty
                     THEN IngestOutcomes(index, metadata, index_file, metadata_file, corpus)
                     ELSE {NotIngested(index, metadata, index_file, metadata_file)}) :
              /\ index' = b.index
              /\ metadata' = b.metadata
              /\ index_file' = b.ifile
              /\ metadata_file' = b.mfile
              /\ LET call == [RagReturned("summary") EXCEPT
                                !.bootstrap = empty,
                                !.status = b.status, !.embedded = b.embedded,
                                !.documents_processed = b.documents_processed,
                                !.chunks_created = b.chunks_created]
                 IN  IF b.raised
                     THEN rag' = [call EXCEPT !.raised = TRUE]
                     ELSE IF (empty /\ b.status # "success") \/ ~HasRecords(corpus)
                          THEN rag' = [call EXCEPT !.answer = NoRecordsSummary]
                          ELSE \E summary \in GenTexts \cup {ErrorAnswer} :
                                  rag' = [call EXCEPT !.has_records = TRUE,
                                                      !.answer = summary]
    /\ pre' = NoRebuild
    /\ UNCHANGED <<up, result, sinceClear, chunkVars, corpus, rpc, gemVars, appVars>>

\* files are put into the records directory or taken out of it
CorpusChange ==
    /\ \E c \in Corpora \ {corpus} : corpus' = c
    /\ rag' = RagReturned("corpus")
    /\ UNCHANGED <<storeVars, chunkVars, rpc, pre, gemVars, appVars>>

\* the process ends, wherever it is, and a new one builds its RAGService:
\* VectorStore.__init__ loads the files
RagRestart ==
    /\ index' = load_index(index_file, metadata_file).index
    /\ metadata' = load_index(index_file, metadata_file).metadata
    /\ up' = TRUE
    /\ rag' = RagReturned("new")
    /\ rpc' = "idle"
    /\ pre' = NoRebuild
    /\ UNCHANGED <<index_file, metadata_file, result, sinceClear, chunkVars, corpus, gemVars, appVars>>

NextRag ==
    \/ IngestRebuildClear
    \/ \E rebuild \in BOOLEAN : IngestRest(rebuild)
    \/ \E qn \in Questions : Query(qn)
    \/ \E qn \in Questions : GetRecommendations(qn, GenLists)
    \/ GetSummary
    \/ CorpusChange
    \/ RagRestart

SpecRag == InitRag /\ [][NextRag]_vars

(***************************************************************************)
(* RAG service: get_recommendations over the texts a generator returns.    *)
(***************************************************************************)
\* a RAGService whose store holds the chunks of the records, ingested and
\* saved
InitRec ==
    /\ corpus \in Corpora
    /\ index = add_rows(<<>>, EmbedBatch(chunk_documents(corpus)))
    /\ metadata = add_metadata(<<>>, chunk_documents(corpus))
    /\ index_file = SaveDone(index, metadata)[1]
    /\ metadata_file = SaveDone(index, metadata)[2]
    /\ up = TRUE
    /\ result = Returned("load")
    /\ sinceClear = FALSE
    /\ ChunkerIdle
    /\ AppIdle
    /\ GeminiIdle
    /\ rag = RagReturned("new")
    /\ rpc = "idle"
    /\ pre = NoRebuild

NextRec ==
    \E qn \in Questions : GetRecommendations(qn, Responses)

SpecRec == InitRec /\ [][NextRec]_vars

(***************************************************************************)
(* Generator client (backend/app/services/gemini_service.py):              *)
(* _call_gemini_api, one step per requests.post.                           *)
(***************************************************************************)
\* the most attempts a caller asks for
MaxRetries == 4

\* retry_delay = 60 (line 73)
DefaultRetryDelay == 60
\* int(float(retryDelay.rstrip('s'))) + 5 (line 79)
RetryDelayMargin == 5

\* the retryDelay of a 429 response: no RetryInfo detail, one that float()
\* rejects, or a number of seconds (rounded down by int())
RetryHints ==
    { [given |-> g, seconds |-> 0] : g \in {"none", "bad"} }
    \cup { [given |-> "number", seconds |-> n] : n \in {0, 7} }
NoHint == [given |-> "none", seconds |-> 0]

\* the texts of a well-formed response
ReplyTexts == { <<"a">>, <<" ">> }

\* how a requests.post ends: a 200 response holding a text, a 429, a 404,
\* another status, a requests.exceptions.RequestException, or a 200 response
\* without candidates[0].content.parts[0].text
PostOutcomes ==
    { [kind |-> "ok", hint |-> NoHint, text |-> t] : t \in ReplyTexts }
    \cup { [kind |-> "rate_limit", hint |-> h, text |-> <<>>] : h \in RetryHints }
    \cup { [kind |-> k, hint |-> NoHint, text |-> <<>>] :
             k \in {"not_found", "error_status", "request_error", "bad_format"} }

\* lines 72-79: the seconds to sleep after a 429
retry_delay(hint) ==
    IF hint.given = "none" THEN DefaultRetryDelay
    ELSE hint.seconds + RetryDelayMargin

\* line 134: the seconds to sleep after a RequestException
wait_time(att) == (att + 1) * 2

\* lines 62-148 as they would be if a status other than 200 and 429 were
\* retried like a RequestException
after_post_retries_status(mr, att, u, o) ==
    LET last == ~(att < mr - 1)
        raises == [gpc |-> "raised", attempt |-> att, url |-> u, slept |-> <<>>]
        retries(cause, seconds) ==
            [gpc |-> "running", attempt |-> att + 1, url |-> "base",
             slept |-> << [after |-> cause, seconds |-> seconds] >>]
    IN  IF o.kind = "not_found" /\ u = "base"
        THEN [gpc |-> "running", attempt |-> att, url |-> "fallback", slept |-> <<>>]
        ELSE IF o.kind = "rate_limit"
        THEN IF o.hint.given = "bad" \/ last THEN raises
             ELSE retries("rate_limit", retry_delay(o.hint))
        ELSE IF o.kind \in {"request_error", "error_status", "not_found"}
        THEN IF last THEN raises ELSE retries("request_error", wait_time(att))
        ELSE IF o.kind = "ok"
        THEN [gpc |-> "returned", attempt |-> att, url |-> u, slept |-> <<>>]
        ELSE raises

\* lines 62-148: where one pass of the loop goes once the post to u has ended
\* as o, in attempt att of mr
after_post(mr, att, u, o) ==
    LET last == ~(att < mr - 1)
        raises == [gpc |-> "raised", attempt |-> att, url |-> u, slept |-> <<>>]
        retries(cause, seconds) ==
            [gpc |-> "running", attempt |-> att + 1, url |-> "base",
             slept |-> << [after |-> cause, seconds |-> seconds] >>]
    IN  IF o.kind = "not_found" /\ u = "base"
        THEN \* lines 65-68: the same attempt posts to the fallback URL
             [gpc |-> "running", attempt |-> att, url |-> "fallback", slept |-> <<>>]
        ELSE IF o.kind = "rate_limit"
        THEN \* lines 71-92; a retryDelay float() rejects ends in line 144
             IF o.hint.given = "bad" \/ last THEN raises
             ELSE retries("rate_limit", retry_delay(o.hint))
        ELSE IF o.kind = "request_error"
        THEN \* lines 132-143
             IF last THEN raises ELSE retries("request_error", wait_time(att))
        ELSE IF o.kind = "ok"
        THEN \* line 126
             [gpc |-> "returned", attempt |-> att, url |-> u, slept |-> <<>>]
        ELSE \* lines 95-109 and 130, re-raised by line 148
             raises

\* a GeminiService, before any call
InitGemini ==
    /\ StoreIdle
    /\ ChunkerIdle
    /\ AppIdle
    /\ RagIdle
    /\ GeminiIdle

\* _call_gemini_api(prompt, system_instruction, max_retries = mr), lines 36-58
GeminiCall(mr) ==
    /\ gpc \in {"idle", "returned", "raised"}
    /\ max_retries' = mr
    /\ attempt' = 0
    /\ url' = "base"
    /\ gpc' = "running"
    /\ tried' = <<>>
    /\ waits' = <<>>
    /\ reply' = NoReply
    /\ UNCHANGED <<storeVars, chunkVars, ragVars, appVars>>

\* lines 62-148: a requests.post and what the loop does with its end
GeminiPost(o) ==
    /\ gpc = "running"
    /\ attempt < max_retries
    /\ LET next == after_post(max_retries, attempt, url, o)
       IN  /\ gpc' = next.gpc
           /\ attempt' = next.attempt
           /\ url' = next.url
           /\ waits' = waits \o next.slept
           /\ reply' = (IF next.gpc = "returned"
                        THEN [given |-> TRUE, text |-> o.text] ELSE NoReply)
    /\ tried' = Append(tried, [attempt |-> attempt, url |-> url,
                               kind |-> o.kind, text |-> o.text])
    /\ UNCHANGED <<max_retries, storeVars, chunkVars, ragVars, appVars>>

\* line 151: the loop ended without a return or a raise (range(max_retries)
\* is empty)
GeminiExhausted ==
    /\ gpc = "running"
    /\ ~(attempt < max_retries)
    /\ gpc' = "raised"
    /\ UNCHANGED <<max_retries, attempt, url, tried, waits, reply,
                   storeVars, chunkVars, ragVars, appVars>>

NextGemini ==
    \/ \E mr \in 0..MaxRetries : GeminiCall(mr)
    \/ \E o \in PostOutcomes : GeminiPost(o)
    \/ GeminiExhausted

SpecGemini == InitGemini /\ [][NextGemini]_vars

\* every requests.post ends, with a response or an exception, and every
\* time.sleep ends
SpecGeminiFair ==
    /\ SpecGemini
    /\ WF_vars(\E o \in PostOutcomes : GeminiPost(o))
    /\ WF_vars(GeminiExhausted)

(***************************************************************************)
(* Application (backend/app/main.py, backend/run.py): the request handlers *)
(* of one uvicorn process over the RAG service and its store, one step per *)
(* change of the index, of the metadata list or of a file.                 *)
(***************************************************************************)
\* the endpoints that reach the index: /api/chatbot/query,
\* /api/chatbot/summary, /api/rag/rebuild
Endpoints == {"query", "summary", "rebuild"}

\* the records directory of the run: empty, or holding b.txt
AppCorpora == { <<>>, <<DocB>> }

\* the handlers as they would run if they were plain "def" endpoints, which
\* the framework runs in a thread pool
EventLoopFreeThreaded(r) == TRUE

\* The handlers are "async def" and never await: the event loop of the one
\* process run.py starts runs a handler from its first line to its return
\* before it starts another.
EventLoopFree(r) == \A q \in Requests \ {r} : hpc[q] = "idle"

\* a handler is between the two writes of _save_index (lines 162-166)
MidSave == \E q \in Requests : hpc[q] \in {"clear_save_metadata", "save_metadata"}

\* a handler is inside ingest_documents
Ingesting(q) ==
    hpc[q] \in {"clear", "clear_save_index", "clear_save_metadata", "read",
                "add_index", "add_metadata", "save_index", "save_metadata"}

\* the handler of r moves to position pc; ret is where it goes on after the
\* ingest_documents it is in
Goto(r, pc, ret) ==
    /\ hpc' = [hpc EXCEPT ![r] = pc]
    /\ hret' = [hret EXCEPT ![r] = ret]
    /\ hop' = (IF pc = "idle" THEN [hop EXCEPT ![r] = "none"] ELSE hop)

\* the handler of r returns its response, or HTTP 500
Finish(r) == Goto(r, "idle", "none")

\* the lines after rag = get_rag_service(): rag.query, rag.get_summary or
\* rag.ingest_documents(rebuild=True)
EnterBody(r, op) ==
    IF op = "rebuild" THEN Goto(r, "clear", "done") ELSE Goto(r, "count", "none")

\* ingest_documents returned, with status success or another
IngestReturns(r, success) ==
    IF hret[r] = "body" THEN EnterBody(r, hop[r])
    ELSE IF hret[r] = "bootstrap" /\ success /\ hop[r] = "query"
    THEN Goto(r, "search", "none")
    ELSE \* query line 94 and get_summary line 307 return early; get_summary
         \* goes on without the index; the rebuild is over
         Finish(r)

\* ingest_documents raised: get_rag_service catches it (main.py 56), the
\* handlers turn it into HTTP 500
IngestRaises(r) ==
    IF hret[r] = "body" THEN EnterBody(r, hop[r]) ELSE Finish(r)

\* _save_index is over, all written or not; clear_collection or add_documents
\* returns
SaveOver(r) ==
    IF hpc[r] \in {"clear_save_index", "clear_save_metadata"}
    THEN Goto(r, "read", hret[r])
    ELSE IngestReturns(r, TRUE)

\* what a read of the index sees
Sees(r, read) ==
    [ by |-> r, read |-> read, vectors |-> Len(index), records |-> Len(metadata),
      saving |-> MidSave ]

\* python run.py in a directory that holds no index files yet
InitApp ==
    /\ StoreIdle
    /\ ChunkerIdle
    /\ GeminiIdle
    /\ corpus \in AppCorpora
    /\ rag = RagReturned("none") /\ rpc = "idle" /\ pre = NoRebuild
    /\ AppIdle

\* a request arrives at an endpoint and the event loop starts its handler
AppBegin(r, op) ==
    /\ hpc[r] = "idle"
    /\ EventLoopFree(r)
    /\ hop' = [hop EXCEPT ![r] = op]
    /\ hpc' = [hpc EXCEPT ![r] = "get_rag_service"]
    /\ UNCHANGED <<hret, rag_service, seen, storeVars, chunkVars, ragVars, gemVars>>

\* get_rag_service, main.py 47-52: RAGService() only when the global is not
\* set, and then the automatic ingest_documents(rebuild=False)
AppGetRagService(r) ==
    /\ hpc[r] = "get_rag_service"
    /\ IF rag_service
       THEN /\ EnterBody(r, hop[r])
            /\ UNCHANGED <<rag_service, storeVars>>
       ELSE /\ rag_service' = TRUE
            /\ index' = load_index(index_file, metadata_file).index
            /\ metadata' = load_index(index_file, metadata_file).metadata
            /\ up' = TRUE
            /\ Goto(r, "read", "body")
            /\ UNCHANGED <<index_file, metadata_file, result, sinceClear>>
    /\ UNCHANGED <<seen, chunkVars, ragVars, gemVars>>

\* ingest_documents(rebuild=True), line 37: clear_collection line 150
AppClear(r) ==
    /\ hpc[r] = "clear"
    /\ index' = create_new_index.index
    /\ metadata' = create_new_index.metadata
    /\ Goto(r, "clear_save_index", hret[r])
    /\ UNCHANGED <<index_file, metadata_file, up, result, sinceClear,
                   rag_service, seen, chunkVars, ragVars, gemVars>>

\* _save_index line 162: faiss.write_index, or the exception line 167 catches
AppWriteIndexFile(r) ==
    /\ hpc[r] \in {"clear_save_index", "save_index"}
    /\ \/ /\ index_file' = write_index(index)
          /\ Goto(r, (IF hpc[r] = "save_index" THEN "save_metadata"
                                                ELSE "clear_save_metadata"), hret[r])
       \/ /\ index_file' \in {index_file, CorruptFile}
          /\ SaveOver(r)
    /\ UNCHANGED <<index, metadata, metadata_file, up, result, sinceClear,
                   rag_service, seen, chunkVars, ragVars, gemVars>>

\* _save_index lines 165-166: pickle.dump, or the exception line 167 catches
AppWriteMetadataFile(r) ==
    /\ hpc[r] \in {"clear_save_metadata", "save_metadata"}
    /\ metadata_file' \in {pickle_dump(metadata), metadata_file, CorruptFile}
    /\ SaveOver(r)
    /\ UNCHANGED <<index, metadata, index_file, up, result, sinceClear,
                   rag_service, seen, chunkVars, ragVars, gemVars>>

\* ingest_documents lines 40-65: the records are read, chunked and embedded
AppReadAndEmbed(r) ==
    /\ hpc[r] = "read"
    /\ IF chunk_documents(corpus) = <<>>
       THEN IngestReturns(r, FALSE)
       ELSE /\ RoomFor(corpus)
            /\ \/ Goto(r, "add_index", hret[r])
               \/ IngestRaises(r)      \* the embedder raises
    /\ UNCHANGED <<rag_service, seen, storeVars, chunkVars, ragVars, gemVars>>

\* add_documents lines 67-81: the checks and self.index.add
AppAddIndex(r) ==
    /\ hpc[r] = "add_index"
    /\ add_check(chunk_documents(corpus), EmbedBatch(chunk_documents(corpus))) = "add"
    /\ index' = add_rows(index, EmbedBatch(chunk_documents(corpus)))
    /\ Goto(r, "add_metadata", hret[r])
    /\ UNCHANGED <<metadata, index_file, metadata_file, up, result, sinceClear,
                   rag_service, seen, chunkVars, ragVars, gemVars>>

\* add_documents lines 84-100: the metadata entries are appended
AppAddMetadata(r) ==
    /\ hpc[r] = "add_metadata"
    /\ metadata' = add_metadata(metadata, chunk_documents(corpus))
    /\ Goto(r, "save_index", hret[r])
    /\ UNCHANGED <<index, index_file, metadata_file, up, result, sinceClear,
                   rag_service, seen, chunkVars, ragVars, gemVars>>

\* query line 89 and get_summary line 304: get_collection_count() == 0
AppCount(r) ==
    /\ hpc[r] = "count"
    /\ seen' = Sees(r, "get_collection_count")
    /\ IF get_collection_count(index) = 0 THEN Goto(r, "read", "bootstrap")
       ELSE IF hop[r] = "query" THEN Goto(r, "search", "none")
       ELSE Finish(r)
    /\ UNCHANGED <<rag_service, storeVars, chunkVars, ragVars, gemVars>>

\* query lines 104-201: search_similar, and the answer is returned
AppSearch(r) ==
    /\ hpc[r] = "search"
    /\ seen' = Sees(r, "search_similar")
    /\ Finish(r)
    /\ UNCHANGED <<rag_service, storeVars, chunkVars, ragVars, gemVars>>

\* the process ends, wherever its handlers are, and run.py starts a new one
AppRestart ==
    /\ rag_service' = FALSE
    /\ index' = <<>> /\ metadata' = <<>> /\ up' = FALSE
    /\ hpc' = [r \in Requests |-> "idle"]
    /\ hop' = [r \in Requests |-> "none"]
    /\ hret' = [r \in Requests |-> "none"]
    /\ seen' = NoRead
    /\ UNCHANGED <<index_file, metadata_file, result, sinceClear,
                   chunkVars, ragVars, gemVars>>

NextApp ==
    \/ \E r \in Requests, op \in Endpoints : AppBegin(r, op)
    \/ \E r \in Requests : AppGetRagService(r)
    \/ \E r \in Requests : AppClear(r)
    \/ \E r \in Requests : AppWriteIndexFile(r)
    \/ \E r \in Requests : AppWriteMetadataFile(r)
    \/ \E r \in Requests : AppReadAndEmbed(r)
    \/ \E r \in Requests : AppAddIndex(r)
    \/ \E r \in Requests : AppAddMetadata(r)
    \/ \E r \in Requests : AppCount(r)
    \/ \E r \in Requests : AppSearch(r)
    \/ AppRestart

SpecApp == InitApp /\ [][NextApp]_vars

(***************************************************************************)
(* Claims about the vector store (checked under Spec).                     *)
(***************************************************************************)
\* search_similar as a caller reaches it: top_k = 0 is "not given"
SearchCall(idx, meta, q, top_k) ==
    search_similar(idx, meta, q, IF top_k = 0 THEN TOP_K_CHUNKS ELSE top_k)

\* the source_file a result shows for a chunk dict
SourceShown(c) == IF c.source_file = NoKey THEN "unknown" ELSE c.source_file

\* C1: in every state reached by add_documents calls, clear_collection calls,
\* stops inside _save_index and restarts, the index holds as many vectors as
\* there are metadata records.
C1_VectorsMatchMetadata ==
    up => Len(index) = Len(metadata)

\* C2: every result of search_similar carries the text and the source_file of
\* the chunk that was passed to add_documents with the matched vector.
C2_ResultsCarryTheirChunk ==
    (up /\ result.op = "search") =>
        \A n \in 1..Len(result.out) :
            LET r == result.out[n]
                c == ChunkOf(index[r.id + 1].vec)
            IN  r.text = c.text /\ r.source_file = SourceShown(c)

\* C3: add_documents called with a vector of the wrong length, or with lists of
\* different lengths (one of them empty included), raises and leaves the
\* vectors, the metadata and both files as they were.
C3_BadInputRaisesAndChangesNothing ==
    [][ (result'.op = "add" /\ (~result'.dimok \/ result'.counts_differ))
          => (result'.raised
              /\ UNCHANGED <<index, metadata, index_file, metadata_file>>) ]_vars

\* C4: search_similar with top_k = k on an index of N entries returns exactly
\* min(k, N) entries.
C4_SearchReturnsMinOfKAndN ==
    (up /\ result.op = "search" /\ ~result.raised) =>
        Len(result.out) = Min(result.k, get_collection_count(index))

\* C5: after add_documents or clear_collection returns normally, a restart
\* loads exactly the vectors and metadata held in memory at the return.
C5_ReturnedMeansPersisted ==
    (up /\ result.op \in {"add", "clear"} /\ ~result.raised) =>
        load_index(index_file, metadata_file) = [index |-> index, metadata |-> metadata]

C7_LoadFallsBackToEmpty ==
    (result.op = "load" /\ (index_file.st # "ok" \/ metadata_file.st # "ok")) =>
        up /\ index = <<>> /\ metadata = <<>> /\ ~result.raised

\* C7 witness: a start over a readable index file with rows in it and a
\* metadata file that does not load
C7_Witness ==
    /\ result.op = "load"
    /\ index_file.st = "ok" /\ Len(index_file.data) > 0
    /\ metadata_file.st = "corrupt"

\* C8: from clear_collection until the next add_documents that stores entries,
\* on the instance that was cleared, get_collection_count returns 0 and
\* search_similar returns the empty sequence for every query.
C8_EmptyAfterClear ==
    sinceClear =>
        /\ get_collection_count(index) = 0
        /\ result.op = "count" => result.count = 0
        /\ result.op = "search" => (result.out = <<>> /\ ~result.raised)
        /\ \A q \in Queries, top_k \in TopKs :
              SearchCall(index, metadata, q, top_k) = [raised |-> FALSE, out |-> <<>>]

\* C8 witness: a search answered after a clear of a store that held entries
\* (they are still in the index file, the save having stopped)
C8_Witness ==
    /\ sinceClear /\ result.op = "search"
    /\ index_file.st = "ok" /\ Len(index_file.data) > 0

(***************************************************************************)
(* Claims about the chunker (checked under SpecChunk).                     *)
(***************************************************************************)
\* C9: with 0 <= chunk_overlap < chunk_size, start grows at every iteration of
\* the loop of chunk_text, so the loop makes at most len(text) iterations.
C9_StartAdvances ==
    (0 <= chunk_overlap /\ chunk_overlap < chunk_size /\ cpc = "loop") =>
        /\ \A i \in 1..(Len(chunks) - 1) : chunks[i + 1].start_char > chunks[i].start_char
        /\ chunks # <<>> => start > chunks[Len(chunks)].start_char
        /\ chunk_index <= Len(text)

\* C10: with chunk_overlap >= chunk_size, chunk_text on a text longer than
\* chunk_size rejects the configuration or clamps the overlap and ends: it is
\* not still in its loop after len(text) iterations (a loop that advances start
\* by one character or more per iteration has ended by then).
C10_NoEndlessLoop ==
    (chunk_overlap >= chunk_size /\ Len(text) > chunk_size) =>
        (cpc = "loop" => chunk_index < Len(text))

\* chunk_text has returned the chunks of a text longer than chunk_size
ReturnedFromLoop == cpc = "done" /\ Len(text) > chunk_size

\* C11: the chunks returned for a text longer than chunk_size cover it without
\* a gap: the first starts at offset 0, each next one starts at the end_char of
\* the one before minus chunk_overlap, so not after that end, and every
\* position of the text is inside the [start_char, end_char) of some chunk.
C11_ChunksCoverText ==
    ReturnedFromLoop =>
        /\ chunks # <<>>
        /\ chunks[1].start_char = 0
        /\ \A i \in 1..(Len(chunks) - 1) :
              /\ chunks[i + 1].start_char = chunks[i].end_char - chunk_overlap
              /\ chunks[i + 1].start_char <= chunks[i].end_char
        /\ \A p \in 0..(Len(text) - 1) :
              \E i \in 1..Len(chunks) :
                  chunks[i].start_char <= p /\ p < chunks[i].end_char

\* C11 witness: three or more chunks were returned, cut with an overlap
C11_Witness ==
    ReturnedFromLoop /\ Len(chunks) >= 3 /\ chunk_overlap > 0

\* C12: when more than one chunk is returned, the end_char of the last chunk
\* is the length of the stripped text and no end_char is greater than it.
C12_EndCharWithinText ==
    (cpc = "done" /\ Len(chunks) > 1) =>
        /\ chunks[Len(chunks)].end_char = Len(text)
        /\ \A i \in 1..Len(chunks) : chunks[i].end_char <= Len(text)

\* C13: a text of at most chunk_size characters with a character that is not
\* whitespace gives exactly one chunk: the stripped text, chunk_index 0,
\* total_chunks 1; an empty or whitespace-only text gives no chunk.
C13_ShortTextOneChunk ==
    (cpc = "done" /\ Len(text) <= chunk_size) =>
        IF text = <<>>
        THEN chunks = <<>>
        ELSE /\ Len(chunks) = 1
             /\ chunks[1].text = text
             /\ chunks[1].text[1] \notin Whitespace
             /\ chunks[1].text[Len(text)] \notin Whitespace
             /\ chunks[1].chunk_index = 0
             /\ chunks[1].total_chunks = 1

\* C13 witness: one chunk returned for a text of exactly chunk_size characters
\* that has whitespace inside
C13_Witness ==
    /\ cpc = "done" /\ Len(text) = chunk_size /\ Len(chunks) = 1
    /\ \E i \in 1..Len(text) : text[i] \in Whitespace

\* C14: no chunk that chunk_text returns has an empty text.
C14_NoEmptyChunk ==
    cpc = "done" => \A i \in 1..Len(chunks) : chunks[i].text # <<>>

\* the separators of the claim, first to last in priority
Separators == << <<"nl", "nl">>, <<"nl">>, <<".", " ">>, <<" ">> >>

\* the offsets p of the text, inside the window that starts at st and at or
\* after its 80% mark, at which the separator sep occurs with all its
\* characters inside the window
OccursAt(sep, st) ==
    { p \in Max(st + EightyPercent(chunk_size), 0)..(st + chunk_size - Len(sep)) :
        \A k \in 1..Len(sep) : text[p + k] = sep[k] }

\* the end the claim gives the window that starts at st
ClaimedEnd(st) ==
    LET present == { b \in 1..Len(Separators) : OccursAt(Separators[b], st) # {} }
        first == CHOOSE b \in present : \A c \in present : b <= c
        last == CHOOSE p \in OccursAt(Separators[first], st) :
                    \A q \in OccursAt(Separators[first], st) : p >= q
    IN  IF present = {} THEN st + chunk_size
        ELSE last + Len(Separators[first])

\* C26: a window that does not reach the end of the text ends just after the
\* last occurrence, at or after the 80% mark of the window, of the first of
\* double newline, newline, period-space, space that occurs there; when none
\* occurs there it ends at start + chunk_size.
C26_CutAtBoundary ==
    (cpc \in {"loop", "done"} /\ Len(text) > chunk_size) =>
        \A i \in 1..Len(chunks) :
            chunks[i].start_char + chunk_size < Len(text) =>
                chunks[i].end_char = ClaimedEnd(chunks[i].start_char)

\* C27: the chunks chunk_text returns carry chunk_index 0, 1, ..., n-1 in
\* output order and total_chunks = n, the number of chunks returned.
C27_IndexesAndTotals ==
    cpc = "done" =>
        \A i \in 1..Len(chunks) :
            /\ chunks[i].chunk_index = i - 1
            /\ chunks[i].total_chunks = Len(chunks)

\* C27 witness: three or more chunks were returned
C27_Witness ==
    cpc = "done" /\ Len(chunks) >= 3

(***************************************************************************)
(* Claims about the RAG service (checked under SpecRag).                   *)
(***************************************************************************)
\* the index a rebuild over the records crp builds
NewContents(crp) ==
    [ index    |-> add_rows(<<>>, EmbedBatch(chunk_documents(crp))),
      metadata |-> add_metadata(<<>>, chunk_documents(crp)) ]

\* the question qn is about what the chunk text t says
MatchesQuestion(qn, t) == qn = "hr?" /\ t = "hr"

\* the position in the ranking at which the source file f is first seen
FirstSeen(similar_chunks, f) ==
    CHOOSE i \in 1..Len(similar_chunks) :
        /\ similar_chunks[i].source_file = f
        /\ \A j \in 1..(i - 1) : similar_chunks[j].source_file # f

\* C15: ingest_documents(rebuild=True) run a second time, right after a run
\* that succeeded and on the same records, leaves the vectors and the metadata
\* exactly as the first run left them.
C15_RebuildTwiceSameIndex ==
    (rpc = "idle" /\ rag.op = "ingest" /\ rag.rebuild /\ rag.status = "success"
       /\ rag.repeat) =>
        /\ index = pre.index
        /\ metadata = pre.metadata

\* C15 witness: a second rebuild in a row has succeeded on a store that holds
\* two entries
C15_Witness ==
    /\ rpc = "idle" /\ rag.op = "ingest" /\ rag.rebuild /\ rag.status = "success" /\ rag.repeat
    /\ Len(index) = 2

\* C16: while ingest_documents(rebuild=True) runs, and after it ended
\* without success, the index in memory and the index a restart would load are
\* each either what the index was when the rebuild began or the complete index
\* of the records.
C16_RebuildIsAtomic ==
    (rpc = "cleared"
       \/ (rag.op = "ingest" /\ rag.rebuild /\ (rag.raised \/ rag.status # "success")))
    => /\ [index |-> index, metadata |-> metadata] \in {pre, NewContents(corpus)}
       /\ load_index(index_file, metadata_file) \in {pre, NewContents(corpus)}

\* C17: a query that finds the index empty runs ingest_documents() first; when
\* the records directory is empty or missing, that ingestion reports
\* "no_documents" with chunks_created = 0 and the query returns has_records
\* false and no sources, with neither the embedder nor the generator called.
C17_EmptyCorpusQuery ==
    (rag.op = "query" /\ rag.bootstrap /\ corpus = <<>>) =>
        /\ ~rag.raised
        /\ rag.status = "no_documents"
        /\ rag.chunks_created = 0
        /\ ~rag.has_records
        /\ rag.sources = <<>>
        /\ ~rag.embedded
        /\ rag.prompt = "none"

\* C17 witness: such a query, made after an earlier rebuild left index files
C17_Witness ==
    /\ rag.op = "query" /\ rag.bootstrap /\ corpus = <<>>
    /\ index_file.st = "ok" /\ metadata_file.st = "ok"

\* C18 as stated: in every result of query, has_records is true exactly when
\* retrieval returned a chunk, exactly when sources is not empty; the grounded
\* prompt was sent exactly when has_records is true and the ungrounded prompt
\* exactly when it is false.
C18_Original ==
    (rag.op = "query" /\ ~rag.raised) =>
        /\ rag.has_records <=> Len(rag.retrieved) > 0
        /\ rag.has_records <=> rag.sources # <<>>
        /\ rag.prompt = "grounded" <=> rag.has_records
        /\ rag.prompt = "ungrounded" <=> ~rag.has_records

\* the query returned at lines 95-101: the index was empty and the ingestion of
\* line 93 did not succeed
ReturnedEarly == rag.bootstrap /\ rag.status # "success"

\* C18: in every result of query, has_records is true exactly when retrieval
\* returned a chunk, exactly when sources is not empty, and the grounded prompt
\* was sent exactly when has_records is true; the ungrounded prompt was sent
\* exactly when has_records is false and the query did not return early, and a
\* query that returned early sent no prompt.
C18_GroundedIffRetrieved ==
    (rag.op = "query" /\ ~rag.raised) =>
        /\ rag.has_records <=> Len(rag.retrieved) > 0
        /\ rag.has_records <=> rag.sources # <<>>
        /\ rag.prompt = "grounded" <=> rag.has_records
        /\ rag.prompt = "ungrounded" <=> (~rag.has_records /\ ~ReturnedEarly)
        /\ ReturnedEarly => (rag.prompt = "none" /\ ~rag.has_records)

\* C18 witness: a query answered from two retrieved chunks of two files
C18_Witness ==
    /\ rag.op = "query" /\ ~rag.raised
    /\ rag.has_records /\ Len(rag.sources) = 2 /\ rag.prompt = "grounded"

\* C19: a query on records of which no chunk matches the question returns
\* has_records false and an answer that is not the empty string.
C19_NoMatchUngrounded ==
    (/\ rag.op = "query" /\ ~rag.raised
     /\ \A i \in 1..Len(chunk_documents(corpus)) :
           ~MatchesQuestion(rag.question, chunk_documents(corpus)[i].text))
    => /\ ~rag.has_records
       /\ rag.answer # <<>>

\* C20: the sources of query and of get_recommendations hold the source file
\* of every retrieved chunk exactly once, nothing else, in the order in which
\* the files are first seen in the ranking.
C20_SourcesUniqueInRankOrder ==
    (rag.op \in {"query", "recommend"} /\ ~rag.raised) =>
        /\ \A i \in 1..Len(rag.retrieved) :
              Cardinality({ j \in 1..Len(rag.sources) :
                              rag.sources[j] = rag.retrieved[i].source_file }) = 1
        /\ \A j \in 1..Len(rag.sources) :
              \E i \in 1..Len(rag.retrieved) :
                  rag.retrieved[i].source_file = rag.sources[j]
        /\ \A j, k \in 1..Len(rag.sources) :
              j < k => FirstSeen(rag.retrieved, rag.sources[j])
                         < FirstSeen(rag.retrieved, rag.sources[k])

\* C20 witness: get_recommendations retrieved two chunks of one file
C20_Witness ==
    /\ rag.op = "recommend" /\ ~rag.raised
    /\ Len(rag.retrieved) = 2 /\ Len(rag.sources) = 1

\* the four operations of the service
ServiceOps == {"ingest", "query", "recommend", "summary"}

\* C22: no call of ingest_documents, query, get_recommendations or get_summary
\* lets an exception escape to its caller; every failure inside ends in a
\* returned result.
C22_NoEscape ==
    rag.op \in ServiceOps => ~rag.raised

(***************************************************************************)
(* Claims about get_recommendations (checked under SpecRec).               *)
(***************************************************************************)
\* get_recommendations called the generator and it returned a text
GotResponse == rag.op = "recommend" /\ rag.generated /\ ~rag.gen_failed

\* C21: whatever the generator does, get_recommendations returns a non-empty
\* list: the one fallback string when no line of the text parses to a
\* recommendation, and a list of one when the generator fails, never an
\* exception.
C21_NeverEmpty ==
    (rag.op = "recommend" /\ rag.generated) =>
        /\ ~rag.raised
        /\ Len(rag.recommendations) >= 1
        /\ \A i \in 1..Len(rag.recommendations) : rag.recommendations[i] # <<>>
        /\ rag.gen_failed => rag.recommendations = <<ErrorRec>>
        /\ ( /\ ~rag.gen_failed
             /\ \A l \in 1..Len(SplitLines(rag.full_response)) :
                   parse_line(SplitLines(rag.full_response)[l]) = <<>> )
           => rag.recommendations = <<FallbackRec>>

\* C21 witness: the text held a list line, nothing parsed, and the fallback
\* was returned
C21_Witness ==
    /\ GotResponse
    /\ \E l \in 1..Len(SplitLines(rag.full_response)) :
          is_list_line(Strip(SplitLines(rag.full_response)[l]))
    /\ rag.recommendations = <<FallbackRec>>

\* the stripped line starts with a list marker: a bullet, or a digit and then
\* '.' or ')'
StartsWithMarker(line) ==
    /\ line # <<>>
    /\ \/ line[1] \in Bullets
       \/ Len(line) >= 2 /\ line[1] \in Digits /\ line[2] \in {".", ")"}

\* the content of a list line: the line with the marker and the whitespace
\* around it removed
Content(line) ==
    Strip(SubSeq(line, (IF line[1] \in Bullets THEN 2 ELSE 3), Len(line)))

\* the recommendations of a text as C28 states them
ClaimedRecs(full_response) ==
    LET lines == SplitLines(full_response)
        kept(line) ==
            /\ StartsWithMarker(line)
            /\ Len(Content(line)) >= MinRecLen
            /\ ~Contains(Lower(Content(line)), Disclaimer)
        acc[i \in 0..Len(lines)] ==
            IF i = 0 THEN <<>>
            ELSE IF kept(Strip(lines[i]))
                 THEN Append(acc[i - 1], Content(Strip(lines[i])))
                 ELSE acc[i - 1]
    IN  acc[Len(lines)]

\* C28: a line is kept exactly when it starts with a bullet or with a digit
\* and '.' or ')', and its content, the marker and the surrounding whitespace
\* removed, has at least 10 characters and no "disclaimer" in any letter case;
\* the kept text is that content.
C28_KeptLines ==
    GotResponse =>
        rag.recommendations =
            IF ClaimedRecs(rag.full_response) = <<>> THEN <<FallbackRec>>
            ELSE ClaimedRecs(rag.full_response)

(***************************************************************************)
(* Claims about _call_gemini_api (checked under SpecGemini and             *)
(* SpecGeminiFair).                                                        *)
(***************************************************************************)
\* the attempts the call has begun
AttemptsMade == IF tried = <<>> THEN 0 ELSE tried[Len(tried)].attempt + 1

\* the post p of the call ended the attempt it belongs to without a text
FailedAttempt(p) ==
    tried[p].kind # "ok" /\ ~(tried[p].kind = "not_found" /\ tried[p].url = "base")

\* what C25 says of every state of a call
C25_Safe ==
    gpc # "idle" =>
        /\ AttemptsMade <= max_retries
        \* a further attempt follows only a 429 or a request failure
        /\ \A p \in 1..(Len(tried) - 1) :
              tried[p + 1].attempt # tried[p].attempt =>
                  tried[p].kind \in {"rate_limit", "request_error"}
        \* the text returned is that of the first attempt that succeeded
        /\ gpc = "returned" =>
              /\ reply = [given |-> TRUE, text |-> tried[Len(tried)].text]
              /\ \A p \in 1..Len(tried) : tried[p].kind = "ok" <=> p = Len(tried)
        \* after the last attempt failed the call raises, and returns nothing
        /\ ( /\ tried # <<>>
             /\ FailedAttempt(Len(tried))
             /\ tried[Len(tried)].attempt = max_retries - 1 ) => gpc = "raised"
        /\ gpc = "raised" =>
              /\ reply = NoReply
              /\ \A p \in 1..Len(tried) : tried[p].kind # "ok"

RequestWaits == SelectSeq(waits, LAMBDA w : w.after = "request_error")

\* C29: between successive attempts that fail with a network-level request
\* error the waits grow exponentially, each the double of the one before.
C29_WaitsDouble ==
    \A i \in 2..Len(RequestWaits) :
        RequestWaits[i].seconds = 2 * RequestWaits[i - 1].seconds

(***************************************************************************)
(* Claims about concurrent requests and process starts (checked under      *)
(* SpecApp).                                                               *)
(***************************************************************************)
\* no (source_file, chunk_index) pair is held twice
NoDuplicateChunks ==
    \A i, j \in 1..Len(metadata) :
        ( /\ metadata[i].source_file = metadata[j].source_file
          /\ metadata[i].chunk_index = metadata[j].chunk_index ) => i = j

\* no read happened while a save had written one file and not the other
ReadsOutsideSaves == ~seen.saving

\* at most one handler is inside ingest_documents
OneIngestion ==
    \A q1, q2 \in Requests : (Ingesting(q1) /\ Ingesting(q2)) => q1 = q2

\* C23: a reader (search_similar, get_collection_count) never sees a number
\* of vectors that differs from the number of metadata records, and never
\* reads while a save has written one file and not the other.
C23_ReadersSeeWholeState ==
    seen.by # "none" => (seen.vectors = seen.records /\ ReadsOutsideSaves)

\* C24: at most one ingestion runs at a time, and concurrent requests on an
\* unchanged corpus never leave the same chunk in the index twice.
C24_OneIngestionNoDuplicate ==
    OneIngestion /\ NoDuplicateChunks

\* C30: after any sequence of process starts, queries, summaries and rebuilds
\* on an unchanged corpus, the index holds each (source_file, chunk_index)
\* pair at most once and counts the chunks of the corpus, or 0.
C30_IndexIsCorpusOrEmpty ==
    (rag_service /\ \A q \in Requests : hpc[q] = "idle") =>
        /\ \A i, j \in 1..Len(metadata) :
              (i # j) => <<metadata[i].source_file, metadata[i].chunk_index>>
                         # <<metadata[j].source_file, metadata[j].chunk_index>>
        /\ get_collection_count(index) \in {0, Len(chunk_documents(corpus))}

====
